---- MODULE Spec2Model ----
(***************************************************************************)
(* A model of the two scripts of the repository:                           *)
(*   llm_rug_final_replay/t.py  coverage pipeline: read_targets,           *)
(*                              execute_cov, parse_file, collect_result    *)
(*   llm_rug_final/t.py         token accounting: counter, calculate       *)
(* Python strings that the code searches with `in` are modelled as tuples  *)
(* of one-character strings, so that the substring tests are computed.     *)
(***************************************************************************)
EXTENDS Integers, Sequences, FiniteSets

VARIABLES
    \* ---- collect_result (llm_rug_final_replay/t.py:54-102)
    obj,            \* obj['data'][0]['functions']: the exported function records
    fi,             \* position of the `for func in ...` loop (1-based)
    ri,             \* position of the `for regions in func['regions']` loop
    pc,             \* where collect_result stands
    map,            \* the cache filename -> boundary line (the dict `map`)
    mamp_reg,       \* the region status map (the dict `mamp_reg`)
    is_valid_func,  \* the flag of line 76/88
    stdout,         \* what print() has written: line 91 and line 102
    persisted,      \* raw_cov_map.json: whether written, and its content
    reg_total,
    reg_count,
    \* ---- parse_file (llm_rug_final_replay/t.py:44-51) applied to a file
    pf_file,        \* the lines fp.readlines() returns
    pf_ans,         \* the value returned
    pf_pc,
    \* ---- counter (llm_rug_final/t.py:18-34)
    logs,           \* the directory fd: its files in os.listdir order
    c_fi,           \* position of the loop over the files
    c_li,           \* position of the loop over the lines of a file
    c_pc,
    counter_total,  \* counter's `total`
    counter_prompt, \* counter's `prompt`
    counter_out,    \* what counter has printed
    \* ---- calculate (llm_rug_final/t.py:37-59)
    run_log,        \* fd/run.log: whether it exists, and its lines `ls`
    idx,
    in_prompt,
    ctxt,
    calc_prompt,    \* calculate's `prompt`
    calc_pc,
    \* ---- one directory's pipeline (llm_rug_final_replay/t.py:8-39, 54-61, 121-124)
    pipe_pc,
    bins,           \* the binaries read_targets returns
    bi,             \* position of execute_cov's loop over bins
    listing,        \* the lines `binary --list` printed
    ti,             \* position of execute_cov's loop over the listed lines
    counter,        \* execute_cov's `counter`
    cmdlog          \* the external commands run so far, with their exit status

covVars     == <<obj, fi, ri, pc, map, mamp_reg, is_valid_func, stdout,
                 persisted, reg_total, reg_count>>
parseVars   == <<pf_file, pf_ans, pf_pc>>
counterVars == <<logs, c_fi, c_li, c_pc, counter_total, counter_prompt, counter_out>>
calcVars    == <<run_log, idx, in_prompt, ctxt, calc_prompt, calc_pc>>
pipeVars    == <<pipe_pc, bins, bi, listing, ti, counter, cmdlog>>
vars        == <<covVars, parseVars, counterVars, calcVars, pipeVars>>

notCov     == <<parseVars, counterVars, calcVars, pipeVars>>
notParse   == <<covVars, counterVars, calcVars, pipeVars>>
notCounter == <<covVars, parseVars, calcVars, pipeVars>>
notCalc    == <<covVars, parseVars, counterVars, pipeVars>>
notPipe    == <<covVars, parseVars, counterVars, calcVars>>

(***************************************************************************)
(* Bounds of the model.                                                    *)
(***************************************************************************)
MaxFuncs   == 2    \* function records in an exported dataset
MaxRegions == 3    \* regions in an exported dataset, all records together
MaxLines   == 3    \* lines of a source file handed to parse_file alone
MaxLogs    == 2    \* files of a directory handed to counter
MaxLogLines == 2   \* lines of one log file
MaxTranscript == 4 \* lines of a run.log
MaxBins    == 2    \* test binaries cargo lists
MaxTests   == 1    \* lines one binary's --list prints

(***************************************************************************)
(* Strings.                                                                *)
(***************************************************************************)
\* Python's `needle in hay` on str: needle occurs as a contiguous substring.
Contains(needle, hay) ==
    \E i \in 1..(Len(hay) - Len(needle) + 1) :
        SubSeq(hay, i, i + Len(needle) - 1) = needle

\* The two markers of line 48.
ModTests == <<"m","o","d"," ","t","e","s","t","s">>
CfgTest  == <<"#","[","c","f","g","(","t","e","s","t",")","]">>

\* Sample source lines.
LineFn      == <<"f","n"," ","f","(",")"," ","{","}">>
LineModTest == <<"m","o","d"," ","t","e","s","t"," ","{">>       \* no marker
LineMod     == ModTests \o <<" ","{">>                            \* mod tests {
LineCfg     == CfgTest
LineBoth    == <<" "," ">> \o CfgTest \o <<" ">> \o ModTests      \* both, indented
SampleLines == {LineFn, LineModTest, LineMod, LineCfg, LineBoth}

(***************************************************************************)
(* parse_file, lines 44-51: ans starts at 1, the loop over readlines()     *)
(* breaks at the first line holding a marker and adds 1 for each line      *)
(* before it.                                                              *)
(***************************************************************************)
IsMarkerLine(l) == Contains(ModTests, l) \/ Contains(CfgTest, l)

\* A slip of the loop: the marker line itself is counted.
RECURSIVE parse_loop_counting_marker(_, _, _)
parse_loop_counting_marker(lines, i, ans) ==
    IF i > Len(lines) THEN ans
    ELSE IF IsMarkerLine(lines[i]) THEN ans + 1
    ELSE parse_loop_counting_marker(lines, i + 1, ans + 1)

RECURSIVE parse_loop(_, _, _)
parse_loop(lines, i, ans) ==
    IF i > Len(lines) THEN ans
    ELSE IF IsMarkerLine(lines[i]) THEN ans
    ELSE parse_loop(lines, i + 1, ans + 1)

parse_file(lines) == parse_loop(lines, 1, 1)

(***************************************************************************)
(* The file system seen by collect_result.                                 *)
(***************************************************************************)
\* os.getcwd()
Cwd   == <<"/","p">>
\* a source file of the project, a file of its tests directory, a file of
\* another crate
PathA == <<"/","p","/","s","/","a",".","r","s">>
PathT == <<"/","p","/","t","e","s","t","s","/","t",".","r","s">>
PathO == <<"/","o","/","s","/","a",".","r","s">>
TestsDir == <<"/","t","e","s","t","s","/">>

\* The text of the project's source file: 10 lines, '#[cfg(test)]' on line 6.
SrcA == <<LineFn, LineFn, LineFn, LineFn, LineFn,
          LineCfg, LineMod, LineFn, LineFn, LineFn>>

FileText(filename) == SrcA

\* line 78
InProject(filename) == Contains(Cwd, filename) /\ ~Contains(TestsDir, filename)

(***************************************************************************)
(* The exported dataset.  A function record carries 'filenames' and        *)
(* 'regions'; a region is the tuple                                        *)
(*   <<startLine, startColumn, endLine, endColumn, executionCount>>        *)
(* (regions[0..4] of lines 84-90; TLA+ tuples are 1-based).                *)
(***************************************************************************)
Regions == { <<1, 1, 3, 1, 0>>, <<1, 1, 3, 1, 3>>,
             <<1, 1, 5, 1, 0>>, <<1, 1, 7, 1, 3>> }

FuncRecord(fs, has, rs) == [filenames |-> fs, hasRegions |-> has, regions |-> rs]

\* The shape of a record: its file names, whether it has the 'regions'
\* field, and how many regions it lists.  A record of the project's source
\* file lists any number of regions; the others are a record of the tests
\* directory, of another crate, with no file name, with two file names, and
\* two without the 'regions' field.
Shape(fs, has, n) == [filenames |-> fs, hasRegions |-> has, size |-> n]

Shapes ==
    { Shape(<<PathA>>, TRUE, n) : n \in 0..MaxRegions } \cup
    { Shape(<<PathT>>, TRUE, 0),
      Shape(<<PathO>>, TRUE, 0),
      Shape(<<>>, TRUE, 0),
      Shape(<<PathA, PathT>>, TRUE, 0),
      Shape(<<PathA>>, FALSE, 0),
      Shape(<<PathO>>, FALSE, 0) }

\* the regions listed by the first i records of shapes sh
RECURSIVE SizeUpTo(_, _)
SizeUpTo(sh, i) == IF i = 0 THEN 0 ELSE sh[i].size + SizeUpTo(sh, i - 1)

\* The dataset of shapes sh whose regions, record after record, are flat.
DataSet(sh, flat) ==
    [ i \in DOMAIN sh |->
        FuncRecord(sh[i].filenames, sh[i].hasRegions,
                   SubSeq(flat, SizeUpTo(sh, i - 1) + 1, SizeUpTo(sh, i))) ]

(***************************************************************************)
(* Dictionaries.                                                           *)
(***************************************************************************)
EmptyDict == [k \in {} |-> 0]
\* d[k] = v
Put(d, k, v) == [x \in (DOMAIN d) \cup {k} |-> IF x = k THEN v ELSE d[x]]
\* d.get(k, dflt)
Get(d, k, dflt) == IF k \in DOMAIN d THEN d[k] ELSE dflt
\* len(d)
DictLen(d) == Cardinality(DOMAIN d)

(***************************************************************************)
(* collect_result, the aggregation pass (lines 65-102).                    *)
(***************************************************************************)
\* line 90: filename + '/' + str(lst) + '/' + str(regions[1]) + '/' + str(led)
\* + '/' + str(regions[3]).  The four trailing fields are decimal numbers, so
\* the string determines the five components and the tuple stands for it.
Key(filename, r) == <<filename, r[1], r[2], r[3], r[4]>>

\* A slip of line 87: the start line is compared instead of the end line.
OutOfScopeByStart(r, limit) == r[1] > limit

\* line 87: led > limit
OutOfScope(r, limit) == r[3] > limit

\* A slip of line 95: a zero count overwrites the entry.
ObserveOverwriting(m, k, count) ==
    IF count > 0 THEN Put(m, k, 1) ELSE Put(m, k, 0)

\* A slip of lines 92-95: the first observation of a key decides its status.
ObserveKeepingFirst(m, k, count) ==
    Put(m, k, Get(m, k, IF count > 0 THEN 1 ELSE 0))

\* lines 92-95
Observe(m, k, count) ==
    IF count > 0 THEN Put(m, k, 1) ELSE Put(m, k, Get(m, k, 0))

\* A slip of line 100: every entry is counted.
RECURSIVE CountAll(_, _)
CountAll(m, keys) ==
    IF keys = {} THEN 0
    ELSE LET k == CHOOSE x \in keys : TRUE
         IN  1 + CountAll(m, keys \ {k})

\* lines 99-101: the loop over mamp_reg.items(), from reg_count = 0
RECURSIVE CountHits(_, _)
CountHits(m, keys) ==
    IF keys = {} THEN 0
    ELSE LET k == CHOOSE x \in keys : TRUE
         IN  (IF m[k] # 0 THEN 1 ELSE 0) + CountHits(m, keys \ {k})

\* A slip of line 74: the assertion is dropped.
FilenamesAssertDropped(func) == TRUE

\* line 74: assert len(func['filenames']) <= 1
FilenamesAssert(func) == Len(func.filenames) <= 1

\* lines 80-82: the boundary of a file, through the cache
Cached(filename) ==
    IF filename \in DOMAIN map THEN map
    ELSE Put(map, filename, parse_file(FileText(filename)))

\* The datasets of at most MaxFuncs records and MaxRegions regions.
CovInit ==
    /\ \E n \in 0..MaxFuncs :
         \E sh \in [1..n -> Shapes] :
           /\ SizeUpTo(sh, n) <= MaxRegions
           /\ \E flat \in [1..SizeUpTo(sh, n) -> Regions] :
                obj = DataSet(sh, flat)
    /\ fi = 1
    /\ ri = 1
    /\ pc = "func"
    /\ map = EmptyDict
    /\ mamp_reg = EmptyDict
    /\ is_valid_func = TRUE
    /\ stdout = <<>>
    /\ persisted = [written |-> FALSE, content |-> EmptyDict]
    /\ reg_total = 0
    /\ reg_count = 0

\* line 74: the assertion fails, AssertionError ends collect_result
FuncAssertFails ==
    /\ UNCHANGED notCov
    /\ pc = "func" /\ fi <= Len(obj)
    /\ ~FilenamesAssert(obj[fi])
    /\ pc' = "raised"
    /\ UNCHANGED <<obj, fi, ri, map, mamp_reg, is_valid_func, stdout,
                   persisted, reg_total, reg_count>>

\* line 75: func['filenames'][0] of an empty list, IndexError
FuncNoFilename ==
    /\ UNCHANGED notCov
    /\ pc = "func" /\ fi <= Len(obj)
    /\ FilenamesAssert(obj[fi])
    /\ Len(obj[fi].filenames) = 0
    /\ pc' = "raised"
    /\ UNCHANGED <<obj, fi, ri, map, mamp_reg, is_valid_func, stdout,
                   persisted, reg_total, reg_count>>

\* lines 75-78: the file is not a source file of the project, the record is
\* passed over and its regions are not read
FuncSkip ==
    /\ UNCHANGED notCov
    /\ pc = "func" /\ fi <= Len(obj)
    /\ FilenamesAssert(obj[fi])
    /\ Len(obj[fi].filenames) > 0
    /\ ~InProject(obj[fi].filenames[1])
    /\ is_valid_func' = TRUE
    /\ fi' = fi + 1
    /\ UNCHANGED <<obj, ri, pc, map, mamp_reg, stdout, persisted,
                   reg_total, reg_count>>

\* lines 75-83: a record of the project; the boundary is looked up and the
\* loop over its regions starts
FuncEnter ==
    /\ UNCHANGED notCov
    /\ pc = "func" /\ fi <= Len(obj)
    /\ FilenamesAssert(obj[fi])
    /\ Len(obj[fi].filenames) > 0
    /\ InProject(obj[fi].filenames[1])
    /\ obj[fi].hasRegions
    /\ is_valid_func' = TRUE
    /\ map' = Cached(obj[fi].filenames[1])
    /\ ri' = 1
    /\ pc' = "regions"
    /\ UNCHANGED <<obj, fi, mamp_reg, stdout, persisted, reg_total, reg_count>>

\* line 83: func['regions'] of a record without the field, KeyError
FuncNoRegions ==
    /\ UNCHANGED notCov
    /\ pc = "func" /\ fi <= Len(obj)
    /\ FilenamesAssert(obj[fi])
    /\ Len(obj[fi].filenames) > 0
    /\ InProject(obj[fi].filenames[1])
    /\ ~obj[fi].hasRegions
    /\ is_valid_func' = TRUE
    /\ map' = Cached(obj[fi].filenames[1])
    /\ pc' = "raised"
    /\ UNCHANGED <<obj, fi, ri, mamp_reg, stdout, persisted, reg_total, reg_count>>

\* lines 84-95: a region within the boundary is printed and recorded
RegionCommit ==
    /\ UNCHANGED notCov
    /\ pc = "regions" /\ ri <= Len(obj[fi].regions)
    /\ LET filename == obj[fi].filenames[1]
           r        == obj[fi].regions[ri]
           k        == Key(filename, r)
       IN  /\ ~OutOfScope(r, map[filename])
           /\ stdout' = Append(stdout, <<"region", k, r[5]>>)
           /\ mamp_reg' = Observe(mamp_reg, k, r[5])
    /\ ri' = ri + 1
    /\ UNCHANGED <<obj, fi, pc, map, is_valid_func, persisted, reg_total, reg_count>>

\* lines 87-89: a region past the boundary ends the loop over the regions
RegionBreak ==
    /\ UNCHANGED notCov
    /\ pc = "regions" /\ ri <= Len(obj[fi].regions)
    /\ OutOfScope(obj[fi].regions[ri], map[obj[fi].filenames[1]])
    /\ is_valid_func' = FALSE
    /\ fi' = fi + 1
    /\ pc' = "func"
    /\ UNCHANGED <<obj, ri, map, mamp_reg, stdout, persisted, reg_total, reg_count>>

\* line 83: the regions of the record are exhausted
RegionsEnd ==
    /\ UNCHANGED notCov
    /\ pc = "regions" /\ ri > Len(obj[fi].regions)
    /\ fi' = fi + 1
    /\ pc' = "func"
    /\ UNCHANGED <<obj, ri, map, mamp_reg, is_valid_func, stdout, persisted,
                   reg_total, reg_count>>

\* lines 73, 96-97: the records are exhausted, raw_cov_map.json is written
Persist ==
    /\ UNCHANGED notCov
    /\ pc = "func" /\ fi > Len(obj)
    /\ persisted' = [written |-> TRUE, content |-> mamp_reg]
    /\ pc' = "report"
    /\ UNCHANGED <<obj, fi, ri, map, mamp_reg, is_valid_func, stdout,
                   reg_total, reg_count>>

\* lines 98-102: the two counts are computed and printed
Report ==
    /\ UNCHANGED notCov
    /\ pc = "report"
    /\ reg_total' = DictLen(mamp_reg)
    /\ reg_count' = CountHits(mamp_reg, DOMAIN mamp_reg)
    /\ stdout' = Append(stdout, <<"counts", reg_count', reg_total'>>)
    /\ pc' = "done"
    /\ UNCHANGED <<obj, fi, ri, map, mamp_reg, is_valid_func, persisted>>

CovNext ==
    \/ FuncAssertFails
    \/ FuncNoFilename
    \/ FuncSkip
    \/ FuncEnter
    \/ FuncNoRegions
    \/ RegionCommit
    \/ RegionBreak
    \/ RegionsEnd
    \/ Persist
    \/ Report

(***************************************************************************)
(* parse_file applied to a source file.                                    *)
(***************************************************************************)
SourceFiles == UNION { [1..n -> SampleLines] : n \in 0..MaxLines }

ParseInit ==
    /\ pf_file \in SourceFiles
    /\ pf_ans = 0
    /\ pf_pc = "call"

ParseCall ==
    /\ UNCHANGED notParse
    /\ pf_pc = "call"
    /\ pf_ans' = parse_file(pf_file)
    /\ pf_pc' = "returned"
    /\ UNCHANGED pf_file

ParseNext ==
    \/ ParseCall

(***************************************************************************)
(* Token accounting, llm_rug_final/t.py.                                   *)
(***************************************************************************)
\* str.startswith and str.endswith
StartsWith(s, prefix) ==
    Len(s) >= Len(prefix) /\ SubSeq(s, 1, Len(prefix)) = prefix
EndsWith(s, suffix) ==
    Len(s) >= Len(suffix) /\ SubSeq(s, Len(s) - Len(suffix) + 1, Len(s)) = suffix

\* c repeated n times
Rep(c, n) == [i \in 1..n |-> c]

\* ''.join(lines)
RECURSIVE Join(_)
Join(lines) == IF lines = <<>> THEN <<>> ELSE Head(lines) \o Join(Tail(lines))

(***************************************************************************)
(* counter, lines 18-34.  A log line is a sequence of tokens: a piece of   *)
(* text, or a field `name=digits`.  Fields that follow one another are     *)
(* separated by ', ' as in the pattern of line 27.                         *)
(***************************************************************************)
Text(s)     == [t |-> s, v |-> 0]
Field(n, x) == [t |-> n, v |-> x]

InjectSuffix == <<"_","i","n","j","e","c","t",".","l","o","g">>
NameA   == <<"a">> \o InjectSuffix
NameB   == <<"b">> \o InjectSuffix
NameRun == <<"r","u","n",".","l","o","g">>
LogNames == {NameA, NameB, NameRun}

\* Scenario 4's line, a line without completion_tokens, a line that holds the
\* three fields but does not start with the prefix, and another line.
LogGood  == << Text("ChatCompletion(id="), Text("x"),
               Field("completion_tokens", 10), Field("prompt_tokens", 20),
               Field("total_tokens", 30), Text(")") >>
LogShort == << Text("ChatCompletion(id="), Text("x"),
               Field("prompt_tokens", 20), Field("total_tokens", 30), Text(")") >>
LogInner == << Text("x"), Field("completion_tokens", 1),
               Field("prompt_tokens", 2), Field("total_tokens", 3) >>
LogOther == << Text("x") >>
LogLines == {LogGood, LogShort, LogInner, LogOther}

\* line 26: l.startswith('ChatCompletion(id=')
HasPrefix(l) == Len(l) > 0 /\ l[1].t = "ChatCompletion(id="

\* line 27-28: p.findall(l), the non-overlapping matches from the left, each
\* the tuple of its three groups
RECURSIVE findall(_, _)
findall(l, i) ==
    IF i + 2 > Len(l) THEN <<>>
    ELSE IF /\ l[i].t = "completion_tokens"
            /\ l[i + 1].t = "prompt_tokens"
            /\ l[i + 2].t = "total_tokens"
         THEN << <<l[i].v, l[i + 1].v, l[i + 2].v>> >> \o findall(l, i + 3)
         ELSE findall(l, i + 1)

LogFiles == { [name |-> n, lines |-> ls] :
              n \in LogNames, ls \in UNION { [1..k -> LogLines] : k \in 0..MaxLogLines } }

\* os.listdir(fd): files of distinct names
RECURSIVE Listings(_)
Listings(n) ==
    IF n = 0 THEN { <<>> }
    ELSE Listings(n - 1) \cup
         { Append(d, f) : d \in { x \in Listings(n - 1) : Len(x) = n - 1 },
                          f \in LogFiles }

DistinctNames(d) == \A i, j \in DOMAIN d : d[i].name = d[j].name => i = j

CounterInit ==
    /\ logs \in { d \in Listings(MaxLogs) : DistinctNames(d) }
    /\ c_fi = 1
    /\ c_li = 1
    /\ c_pc = "files"
    /\ counter_total = 0
    /\ counter_prompt = 0
    /\ counter_out = <<>>

\* line 23: the name does not end with "_inject.log"
CounterSkipFile ==
    /\ UNCHANGED notCounter
    /\ c_pc = "files" /\ c_fi <= Len(logs)
    /\ ~EndsWith(logs[c_fi].name, InjectSuffix)
    /\ c_fi' = c_fi + 1
    /\ UNCHANGED <<logs, c_li, c_pc, counter_total, counter_prompt, counter_out>>

\* lines 23-25
CounterOpenFile ==
    /\ UNCHANGED notCounter
    /\ c_pc = "files" /\ c_fi <= Len(logs)
    /\ EndsWith(logs[c_fi].name, InjectSuffix)
    /\ c_li' = 1
    /\ c_pc' = "lines"
    /\ UNCHANGED <<logs, c_fi, counter_total, counter_prompt, counter_out>>

\* line 26: a line that does not start with the prefix
CounterOtherLine ==
    /\ UNCHANGED notCounter
    /\ c_pc = "lines" /\ c_li <= Len(logs[c_fi].lines)
    /\ ~HasPrefix(logs[c_fi].lines[c_li])
    /\ c_li' = c_li + 1
    /\ UNCHANGED <<logs, c_fi, c_pc, counter_total, counter_prompt, counter_out>>

\* lines 27-33: the pattern matches; gs is the first match
CounterMatch ==
    /\ UNCHANGED notCounter
    /\ c_pc = "lines" /\ c_li <= Len(logs[c_fi].lines)
    /\ HasPrefix(logs[c_fi].lines[c_li])
    /\ findall(logs[c_fi].lines[c_li], 1) # <<>>
    /\ LET gs == findall(logs[c_fi].lines[c_li], 1)[1]
       IN  IF Len(gs) # 3
           THEN /\ counter_out' = Append(counter_out, <<"line", c_fi, c_li>>)
                /\ UNCHANGED <<counter_total, counter_prompt>>
           ELSE /\ counter_prompt' = counter_prompt + gs[2]
                /\ counter_total' = counter_total + gs[3]
                /\ UNCHANGED counter_out
    /\ c_li' = c_li + 1
    /\ UNCHANGED <<logs, c_fi, c_pc>>

\* line 28: the pattern does not match, findall returns [] and [0] raises
\* IndexError, which nothing catches
CounterNoMatch ==
    /\ UNCHANGED notCounter
    /\ c_pc = "lines" /\ c_li <= Len(logs[c_fi].lines)
    /\ HasPrefix(logs[c_fi].lines[c_li])
    /\ findall(logs[c_fi].lines[c_li], 1) = <<>>
    /\ c_pc' = "raised"
    /\ UNCHANGED <<logs, c_fi, c_li, counter_total, counter_prompt, counter_out>>

\* line 25: the lines of the file are exhausted
CounterEndFile ==
    /\ UNCHANGED notCounter
    /\ c_pc = "lines" /\ c_li > Len(logs[c_fi].lines)
    /\ c_fi' = c_fi + 1
    /\ c_pc' = "files"
    /\ UNCHANGED <<logs, c_li, counter_total, counter_prompt, counter_out>>

\* line 34
CounterPrint ==
    /\ UNCHANGED notCounter
    /\ c_pc = "files" /\ c_fi > Len(logs)
    /\ counter_out' = Append(counter_out, <<"sums", counter_prompt, counter_total>>)
    /\ c_pc' = "done"
    /\ UNCHANGED <<logs, c_fi, c_li, counter_total, counter_prompt>>

CounterNext ==
    \/ CounterSkipFile
    \/ CounterOpenFile
    \/ CounterOtherLine
    \/ CounterMatch
    \/ CounterNoMatch
    \/ CounterEndFile
    \/ CounterPrint

(***************************************************************************)
(* calculate, lines 37-59.                                                 *)
(***************************************************************************)
\* lines 13-16
init_content == <<
    "\n","Y","o","u"," ","a","r","e"," ","a","n"," ","e","x","p","e","r",
    "t"," ","i","n"," ","R","u","s","t"," ","a","n","d"," ","I"," ","n","e",
    "e","d"," ","y","o","u","r"," ","h","e","l","p"," ","o","n"," ","d","e",
    "v","e","l","o","p","m","e","n","t","."," ","I"," ","w","i","l","l"," ",
    "p","r","o","v","i","d","e"," ","y","o","u"," ","t","h","e"," ","c","o",
    "n","t","e","x","t"," ","a","n","d"," ","d","e","f","i","n","i","t","i",
    "o","n"," ","o","r"," ","s","a","m","p","l","e"," ","\n","a","n","d",
    " ","w","i","l","l"," ","a","s","k"," ","y","o","u"," ","t","o"," ","h",
    "e","l","p"," ","m","e"," ","w","r","i","t","e"," ","t","h","e"," ","c",
    "o","d","e","."," ","P","l","e","a","s","e"," ","p","a","y"," ","a","t",
    "t","e","n","t","i","o","n"," ","t","o"," ","t","h","e"," ","p","a","t",
    "h","s"," ","a","n","d"," ","t","r","y"," ","t","o"," ","u","t","i","l",
    "i","z","e"," ","t","h","e"," ","i","n","f","o","r","m","a","t","i","o",
    "n"," ","I"," ","p","r","o","v","i","d","e","d",".","\n"
    >>

\* line 52: len(enc.encode(text)).  The tokenizer is the tiktoken library;
\* here every character is one token.
tokenCount(text) == Len(text)

\* the delimiters of lines 50 and 55
DashDelimiter == Rep("-", 20)
EqDelimiter   == Rep("=", 40)

\* Lines of a transcript: the two delimiters, a run of '=' one short of the
\* delimiter, and a line of text.
TranscriptLines == { EqDelimiter, DashDelimiter, Rep("=", 39), <<"f","n"," ","f">> }

RunLogs ==
    { [exists |-> FALSE, ls |-> <<>>] } \cup
    { [exists |-> TRUE, ls |-> l] :
      l \in UNION { [1..n -> TranscriptLines] : n \in 0..MaxTranscript } }

CalcInit ==
    /\ run_log \in RunLogs
    /\ idx = 1
    /\ in_prompt = FALSE
    /\ ctxt = <<>>
    /\ calc_prompt = 0
    /\ calc_pc = "start"

\* line 41: there is no run.log; line 59 prints prompt = 0
CalcNoRunLog ==
    /\ UNCHANGED notCalc
    /\ calc_pc = "start"
    /\ ~run_log.exists
    /\ calc_pc' = "done"
    /\ UNCHANGED <<run_log, idx, in_prompt, ctxt, calc_prompt>>

\* lines 41-46
CalcOpen ==
    /\ UNCHANGED notCalc
    /\ calc_pc = "start"
    /\ run_log.exists
    /\ idx' = 1
    /\ in_prompt' = FALSE
    /\ ctxt' = <<>>
    /\ calc_pc' = "scan"
    /\ UNCHANGED <<run_log, calc_prompt>>

\* lines 49-53, 58: inside a block, the line starts with the '-' delimiter
CalcCloseBlock ==
    /\ UNCHANGED notCalc
    /\ calc_pc = "scan" /\ idx <= Len(run_log.ls)
    /\ in_prompt
    /\ StartsWith(run_log.ls[idx], DashDelimiter)
    /\ in_prompt' = FALSE
    /\ calc_prompt' = calc_prompt + tokenCount(init_content \o Join(ctxt))
    /\ ctxt' = <<>>
    /\ idx' = idx + 1
    /\ UNCHANGED <<run_log, calc_pc>>

\* lines 49-50, 58: inside a block, any other line; nothing but idx changes
CalcInsideLine ==
    /\ UNCHANGED notCalc
    /\ calc_pc = "scan" /\ idx <= Len(run_log.ls)
    /\ in_prompt
    /\ ~StartsWith(run_log.ls[idx], DashDelimiter)
    /\ idx' = idx + 1
    /\ UNCHANGED <<run_log, in_prompt, ctxt, calc_prompt, calc_pc>>

\* lines 54-58: outside a block, the line starts with the '=' delimiter
CalcOpenBlock ==
    /\ UNCHANGED notCalc
    /\ calc_pc = "scan" /\ idx <= Len(run_log.ls)
    /\ ~in_prompt
    /\ StartsWith(run_log.ls[idx], EqDelimiter)
    /\ in_prompt' = TRUE
    /\ ctxt' = <<>>
    /\ idx' = idx + 1
    /\ UNCHANGED <<run_log, calc_prompt, calc_pc>>

\* lines 54-55, 58: outside a block, any other line
CalcOutsideLine ==
    /\ UNCHANGED notCalc
    /\ calc_pc = "scan" /\ idx <= Len(run_log.ls)
    /\ ~in_prompt
    /\ ~StartsWith(run_log.ls[idx], EqDelimiter)
    /\ idx' = idx + 1
    /\ UNCHANGED <<run_log, in_prompt, ctxt, calc_prompt, calc_pc>>

\* lines 47, 59: the lines are exhausted, prompt is printed
CalcPrint ==
    /\ UNCHANGED notCalc
    /\ calc_pc = "scan" /\ idx > Len(run_log.ls)
    /\ calc_pc' = "done"
    /\ UNCHANGED <<run_log, idx, in_prompt, ctxt, calc_prompt>>

CalcNext ==
    \/ CalcNoRunLog
    \/ CalcOpen
    \/ CalcCloseBlock
    \/ CalcInsideLine
    \/ CalcOpenBlock
    \/ CalcOutsideLine
    \/ CalcPrint

(***************************************************************************)
(* One directory's pipeline: read_targets, execute_cov, collect_result,    *)
(* in the order of lines 122-124 (where the first two calls are commented  *)
(* out and collect_result is given two fixed binaries).  An external       *)
(* command ends with an exit status the pipeline does not choose.          *)
(***************************************************************************)
ExitCodes == {0, 1}
\* a test passes, or `timeout 2m` ends it with status 124
TestExitCodes == {0, 124}

Cmd(c, a, rc) == [cmd |-> c, arg |-> a, rc |-> rc]

\* lines printed by `binary --list`
ListedTest == <<"a",":",":","t",":"," ","t","e","s","t">>
ListedRug  == <<"t","e","s","t","s","_","r","u","g","_","1",":",":","t",":"," ","t","e","s","t">>
ListedLlm  == <<"t","e","s","t","s","_","l","l","m","_","1","6","_","2",":",":","t",":"," ","t","e","s","t">>
ListedLines == {ListedTest, ListedRug, ListedLlm}
TestsRug   == <<"t","e","s","t","s","_","r","u","g">>
TestsLlm16 == <<"t","e","s","t","s","_","l","l","m","_","1","6">>

\* line 35
IsGeneratedTest(l) == Contains(TestsRug, l) \/ Contains(TestsLlm16, l)

\* line 11: ret.returncode != 0
ReadListFailed(rc) == rc # 0

\* The assertion is commented out, as the one of line 56 is.
ExportAssertDropped(rc) == TRUE

\* line 61: assert fin.returncode == 0
ExportAssert(rc) == rc = 0

PipeInit ==
    /\ pipe_pc = "read_targets"
    /\ bins = <<>>
    /\ bi = 1
    /\ listing = <<>>
    /\ ti = 1
    /\ counter = 0
    /\ cmdlog = <<>>

\* lines 9-12: the listing command fails, read_targets raises
ReadTargetsRaise ==
    /\ UNCHANGED notPipe
    /\ pipe_pc = "read_targets"
    /\ \E rc \in ExitCodes :
         /\ ReadListFailed(rc)
         /\ cmdlog' = Append(cmdlog, Cmd("cargo_test_list", 0, rc))
    /\ pipe_pc' = "raised"
    /\ UNCHANGED <<bins, bi, listing, ti, counter>>

\* lines 9-22: the binaries are read from the 'Running' lines of stderr, then
\* `rm *.profraw` runs and its exit status is dropped
ReadTargetsReturn ==
    /\ UNCHANGED notPipe
    /\ pipe_pc = "read_targets"
    /\ \E rc \in ExitCodes, n \in 0..MaxBins, rmrc \in ExitCodes :
         /\ ~ReadListFailed(rc)
         /\ bins' = [i \in 1..n |-> i]
         /\ cmdlog' = cmdlog \o << Cmd("cargo_test_list", 0, rc),
                                   Cmd("rm_profraw", 0, rmrc) >>
    /\ pipe_pc' = "execute_cov"
    /\ UNCHANGED <<bi, listing, ti, counter>>

\* lines 26-30: there is no cov directory, or `rm -rf cov` removes it; the
\* exit status of rm is dropped
ExecCovStart ==
    /\ UNCHANGED notPipe
    /\ pipe_pc = "execute_cov"
    /\ \/ UNCHANGED cmdlog
       \/ \E rc \in ExitCodes : cmdlog' = Append(cmdlog, Cmd("rm_cov", 0, rc))
    /\ counter' = 0
    /\ bi' = 1
    /\ pipe_pc' = "bins"
    /\ UNCHANGED <<bins, listing, ti>>

\* lines 26-28: `rm -rf cov` fails and leaves the directory, os.mkdir raises
\* FileExistsError
ExecCovMkdirRaises ==
    /\ UNCHANGED notPipe
    /\ pipe_pc = "execute_cov"
    /\ \E rc \in ExitCodes \ {0} : cmdlog' = Append(cmdlog, Cmd("rm_cov", 0, rc))
    /\ pipe_pc' = "raised"
    /\ UNCHANGED <<bins, bi, listing, ti, counter>>

\* lines 32-34: `binary --list`; its exit status is dropped
ExecCovList ==
    /\ UNCHANGED notPipe
    /\ pipe_pc = "bins" /\ bi <= Len(bins)
    /\ \E rc \in ExitCodes, n \in 0..MaxTests :
         \E lines \in [1..n -> ListedLines] :
           /\ cmdlog' = Append(cmdlog, Cmd("binary_list", bins[bi], rc))
           /\ listing' = lines
    /\ ti' = 1
    /\ pipe_pc' = "tests"
    /\ UNCHANGED <<bins, bi, counter>>

\* lines 35-36
ExecCovSkipLine ==
    /\ UNCHANGED notPipe
    /\ pipe_pc = "tests" /\ ti <= Len(listing)
    /\ IsGeneratedTest(listing[ti])
    /\ ti' = ti + 1
    /\ UNCHANGED <<pipe_pc, bins, bi, listing, counter, cmdlog>>

\* lines 37-39: the test runs under `timeout 2m`; its exit status is dropped
ExecCovRunTest ==
    /\ UNCHANGED notPipe
    /\ pipe_pc = "tests" /\ ti <= Len(listing)
    /\ ~IsGeneratedTest(listing[ti])
    /\ counter' = counter + 1
    /\ \E rc \in TestExitCodes :
         cmdlog' = Append(cmdlog, Cmd("test", counter', rc))
    /\ ti' = ti + 1
    /\ UNCHANGED <<pipe_pc, bins, bi, listing>>

\* line 34: the listed lines are exhausted
ExecCovNextBinary ==
    /\ UNCHANGED notPipe
    /\ pipe_pc = "tests" /\ ti > Len(listing)
    /\ bi' = bi + 1
    /\ pipe_pc' = "bins"
    /\ UNCHANGED <<bins, listing, ti, counter, cmdlog>>

\* line 32: the binaries are exhausted, execute_cov returns
ExecCovReturn ==
    /\ UNCHANGED notPipe
    /\ pipe_pc = "bins" /\ bi > Len(bins)
    /\ pipe_pc' = "collect_result"
    /\ UNCHANGED <<bins, bi, listing, ti, counter, cmdlog>>

\* lines 57-61: llvm-cov export fails, the assertion raises
CollectExportRaises ==
    /\ UNCHANGED notPipe
    /\ pipe_pc = "collect_result"
    /\ \E rc \in ExitCodes :
         /\ ~ExportAssert(rc)
         /\ cmdlog' = Append(cmdlog, Cmd("llvm_cov_export", 0, rc))
    /\ pipe_pc' = "raised"
    /\ UNCHANGED <<bins, bi, listing, ti, counter>>

\* lines 57-64: the export is read and written to cov.json; the aggregation
\* pass of lines 65-102 follows
CollectExport ==
    /\ UNCHANGED notPipe
    /\ pipe_pc = "collect_result"
    /\ \E rc \in ExitCodes :
         /\ ExportAssert(rc)
         /\ cmdlog' = Append(cmdlog, Cmd("llvm_cov_export", 0, rc))
    /\ pipe_pc' = "aggregation"
    /\ UNCHANGED <<bins, bi, listing, ti, counter>>

PipeNext ==
    \/ ReadTargetsRaise
    \/ ReadTargetsReturn
    \/ ExecCovStart
    \/ ExecCovMkdirRaises
    \/ ExecCovList
    \/ ExecCovSkipLine
    \/ ExecCovRunTest
    \/ ExecCovNextBinary
    \/ ExecCovReturn
    \/ CollectExportRaises
    \/ CollectExport

(***************************************************************************)
(* Specifications.  Each runs one part; the variables of the other parts   *)
(* rest.                                                                   *)
(***************************************************************************)
CovIdle ==
    /\ obj = <<>>
    /\ fi = 1
    /\ ri = 1
    /\ pc = "idle"
    /\ map = EmptyDict
    /\ mamp_reg = EmptyDict
    /\ is_valid_func = TRUE
    /\ stdout = <<>>
    /\ persisted = [written |-> FALSE, content |-> EmptyDict]
    /\ reg_total = 0
    /\ reg_count = 0

ParseIdle ==
    /\ pf_file = <<>>
    /\ pf_ans = 0
    /\ pf_pc = "idle"

CounterIdle ==
    /\ logs = <<>>
    /\ c_fi = 1
    /\ c_li = 1
    /\ c_pc = "idle"
    /\ counter_total = 0
    /\ counter_prompt = 0
    /\ counter_out = <<>>

CalcIdle ==
    /\ run_log = [exists |-> FALSE, ls |-> <<>>]
    /\ idx = 1
    /\ in_prompt = FALSE
    /\ ctxt = <<>>
    /\ calc_prompt = 0
    /\ calc_pc = "idle"

PipeIdle ==
    /\ pipe_pc = "idle"
    /\ bins = <<>>
    /\ bi = 1
    /\ listing = <<>>
    /\ ti = 1
    /\ counter = 0
    /\ cmdlog = <<>>

\* collect_result's aggregation pass over an exported dataset
InitCov == CovInit /\ ParseIdle /\ CounterIdle /\ CalcIdle /\ PipeIdle
SpecCov == InitCov /\ [][CovNext]_vars

\* parse_file over a source file
InitParse == ParseInit /\ CovIdle /\ CounterIdle /\ CalcIdle /\ PipeIdle
SpecParse == InitParse /\ [][ParseNext]_vars

\* counter over a directory of logs
InitCounter == CounterInit /\ CovIdle /\ ParseIdle /\ CalcIdle /\ PipeIdle
SpecCounter == InitCounter /\ [][CounterNext]_vars

\* calculate over a directory's run.log
InitCalc == CalcInit /\ CovIdle /\ ParseIdle /\ CounterIdle /\ PipeIdle
SpecCalc == InitCalc /\ [][CalcNext]_vars

\* the pipeline of one directory
InitPipe == PipeInit /\ CovIdle /\ ParseIdle /\ CounterIdle /\ CalcIdle
SpecPipe == InitPipe /\ [][PipeNext]_vars

(***************************************************************************)
(* The claims about collect_result's aggregation pass (SpecCov).           *)
(***************************************************************************)
\* The boundary line of a file: what parse_file returns for its text.
Boundaries == [f \in {PathA, PathT, PathO} |-> parse_file(FileText(f))]
Boundary(filename) == Boundaries[filename]

\* Record f is one whose regions the pass reads: one file name, a source
\* file of the project, with its region list.
Scanned(f) ==
    /\ Len(obj[f].filenames) = 1
    /\ InProject(obj[f].filenames[1])
    /\ obj[f].hasRegions

\* The stop point of record f: the place of its first region that ends past
\* the boundary, or one past its last region.
StopPoint(f) ==
    LET rs  == obj[f].regions
        bad == { j \in DOMAIN rs : rs[j][3] > Boundary(obj[f].filenames[1]) }
    IN  IF bad = {} THEN Len(rs) + 1
        ELSE CHOOSE j \in bad : \A j2 \in bad : j <= j2

\* The pass has gone over place j of record f.
Passed(f, j) == f < fi \/ (f = fi /\ pc = "regions" /\ j < ri)

\* The committed observations so far: the regions the pass has gone over
\* that lie before the stop point of their record.
Committed ==
    UNION { { <<f, j>> : j \in { x \in DOMAIN obj[f].regions :
                                 x < StopPoint(f) /\ Passed(f, x) } } :
            f \in { g \in DOMAIN obj : Scanned(g) } }

KeyOf(p)   == Key(obj[p[1]].filenames[1], obj[p[1]].regions[p[2]])
CountOf(p) == obj[p[1]].regions[p[2]][5]
Before(p, q) == p[1] < q[1] \/ (p[1] = q[1] /\ p[2] < q[2])

\* C1: no downgrade.  In every step of the pass a key that is in the map
\* stays in it, a key whose status is 1 keeps status 1 (also when the region
\* observed has executionCount 0), and every status is 0 or 1.
C1_NoDowngrade ==
    [][ /\ \A k \in DOMAIN mamp_reg :
              /\ k \in DOMAIN mamp_reg'
              /\ mamp_reg[k] = 1 => mamp_reg'[k] = 1
        /\ \A k \in DOMAIN mamp_reg' : mamp_reg'[k] \in {0, 1} ]_vars

\* C1, its case: a key observed with a positive count and committed again
\* later with count 0 (Scenario 3), status 1.
C1_Witness ==
    \E p \in Committed, q \in Committed :
        /\ Before(p, q)
        /\ KeyOf(p) = KeyOf(q)
        /\ CountOf(p) > 0
        /\ CountOf(q) = 0
        /\ mamp_reg[KeyOf(q)] = 1

\* C2 as stated: of a record the pass has finished, neither the first region
\* that ends past the boundary nor any region listed after it has its key in
\* the map.
C2_ScopeCutoff_Original ==
    \A f \in DOMAIN obj :
        (Scanned(f) /\ f < fi) =>
            \A j \in DOMAIN obj[f].regions :
                j >= StopPoint(f) => KeyOf(<<f, j>>) \notin DOMAIN mamp_reg

\* C2, amended: no key of the map ends past the boundary of its file; and the
\* key of a region listed at or after the stop point of its record is in the
\* map only when a region with that key was committed before a stop point
\* (earlier in the record, or in another record).
C2_ScopeCutoff ==
    LET committedKeys == { KeyOf(p) : p \in Committed }
    IN  /\ \A k \in DOMAIN mamp_reg : k[4] <= Boundary(k[1])
        /\ \A f \in DOMAIN obj :
            (Scanned(f) /\ f < fi) =>
                \A j \in DOMAIN obj[f].regions :
                    (j >= StopPoint(f) /\ KeyOf(<<f, j>>) \in DOMAIN mamp_reg) =>
                        KeyOf(<<f, j>>) \in committedKeys

\* C2, its case: the pass is over, and a region within the boundary that is
\* listed after a region past the boundary has left no key.
C2_Witness ==
    /\ pc = "done"
    /\ \E f \in DOMAIN obj :
        /\ Scanned(f)
        /\ \E j \in DOMAIN obj[f].regions :
            /\ j > StopPoint(f)
            /\ obj[f].regions[j][3] <= Boundary(obj[f].filenames[1])
            /\ KeyOf(<<f, j>>) \notin DOMAIN mamp_reg

\* C3 as stated: at the end of the pass every key of the map comes from a
\* record none of whose regions ends past the boundary; a record with such a
\* region contributes nothing, the regions listed before it included.
C3_WholeFunctionDiscard ==
    pc = "done" =>
        \A k \in DOMAIN mamp_reg :
            \E f \in DOMAIN obj :
                /\ Scanned(f)
                /\ StopPoint(f) = Len(obj[f].regions) + 1
                /\ \E j \in DOMAIN obj[f].regions : KeyOf(<<f, j>>) = k

\* C5: summary counts.  When the pass is done the total printed is the
\* number of keys of the map and the hit count printed is the number of keys
\* of status 1; for an empty map both are 0; and the report step can always
\* be taken, there being nothing in it that fails.
C5_SummaryCounts ==
    /\ pc = "report" => ENABLED Report
    /\ pc = "done" =>
        /\ reg_total = Cardinality(DOMAIN mamp_reg)
        /\ reg_count = Cardinality({ k \in DOMAIN mamp_reg : mamp_reg[k] = 1 })
        /\ 0 <= reg_count /\ reg_count <= reg_total
        /\ stdout[Len(stdout)] = <<"counts", reg_count, reg_total>>
        /\ (DOMAIN mamp_reg = {}) => (reg_count = 0 /\ reg_total = 0)

\* C5, its case: a report over a map that holds both a hit and an unhit key.
C5_Witness ==
    /\ pc = "done"
    /\ reg_count = 1
    /\ reg_total = 2

\* A record is malformed in the claim's sense: it does not list exactly one
\* file, or it lacks its region list.
Malformed(rec) == Len(rec.filenames) # 1 \/ ~rec.hasRegions

\* A record at which the pass fails: it does not list exactly one file, or it
\* is a record of a source file of the project without its region list.
MalformedWhereRead(rec) ==
    \/ Len(rec.filenames) # 1
    \/ (InProject(rec.filenames[1]) /\ ~rec.hasRegions)

CountsPrinted == \E i \in DOMAIN stdout : stdout[i][1] = "counts"

\* C8 as stated: the pass never goes beyond a malformed record, and with such
\* a record in the dataset nothing is persisted and no counts are printed.
C8_ValidationFatal_Original ==
    \A f \in DOMAIN obj :
        Malformed(obj[f]) =>
            /\ fi <= f
            /\ ~persisted.written
            /\ ~CountsPrinted

\* C8, amended: the pass stops with an exception at a record that lists no
\* file or more than one, and at a record of a source file of the project
\* that has no region list; then nothing is persisted and no counts are
\* printed.  (A record of a file outside the project or under /tests/ is
\* passed over before its regions are read.)
C8_ValidationFatal ==
    /\ \A f \in DOMAIN obj :
        MalformedWhereRead(obj[f]) =>
            /\ fi <= f
            /\ ~persisted.written
            /\ ~CountsPrinted
    /\ pc = "raised" =>
        /\ fi \in DOMAIN obj
        /\ MalformedWhereRead(obj[fi])
        /\ ~ENABLED CovNext

\* C8, its case: the pass has stopped at a second record that lists two
\* files, after it committed regions of the first.
C8_Witness ==
    /\ pc = "raised"
    /\ fi = 2
    /\ Len(obj[fi].filenames) > 1
    /\ DOMAIN mamp_reg # {}
    /\ ~persisted.written

\* C9: the status is the OR of the committed observations.  The keys of the
\* map are the keys of the regions processed before the stop point of their
\* record, and a key has status 1 exactly when one of these observations has
\* a positive count.  It holds after every step, so also at the end.
C9_StatusIsOr ==
    LET observed == { <<KeyOf(p), CountOf(p)>> : p \in Committed }
    IN  /\ DOMAIN mamp_reg = { o[1] : o \in observed }
        /\ \A k \in DOMAIN mamp_reg :
            mamp_reg[k] = IF \E o \in observed : o[1] = k /\ o[2] > 0
                          THEN 1 ELSE 0

\* C9, its case: at the end a key first observed with count 0 and then with
\* a positive count has status 1 (Scenario 2), next to a key of status 0.
C9_Witness ==
    /\ pc = "done"
    /\ \E p \in Committed, q \in Committed :
        /\ Before(p, q)
        /\ KeyOf(p) = KeyOf(q)
        /\ CountOf(p) = 0
        /\ CountOf(q) > 0
        /\ mamp_reg[KeyOf(p)] = 1
    /\ \E k \in DOMAIN mamp_reg : mamp_reg[k] = 0

(***************************************************************************)
(* The claim about parse_file (SpecParse).                                 *)
(***************************************************************************)
\* the sample lines that hold 'mod tests' or '#[cfg(test)]'
MarkerLines == {LineMod, LineCfg, LineBoth}

\* C4: boundary lookup.  parse_file returns the 1-based place of the first
\* line that holds a marker, and the number of lines plus one when no line
\* holds one; so the result lies between 1 and the number of lines plus one.
C4_BoundaryLookup ==
    pf_pc = "returned" =>
        LET marked == { i \in DOMAIN pf_file : pf_file[i] \in MarkerLines }
        IN  /\ marked = {} => pf_ans = Len(pf_file) + 1
            /\ marked # {} => (pf_ans \in marked /\ \A i \in marked : pf_ans <= i)
            /\ 1 <= pf_ans /\ pf_ans <= Len(pf_file) + 1

\* C4, its case: a file whose first line nearly is a marker, with markers on
\* the second line and on a later one.
C4_Witness ==
    /\ pf_pc = "returned"
    /\ Len(pf_file) >= 3
    /\ pf_file[1] = LineModTest
    /\ pf_file[2] = LineBoth
    /\ pf_file[3] = LineCfg
    /\ pf_ans = 2

(***************************************************************************)
(* The claim about counter (SpecCounter).                                  *)
(***************************************************************************)
\* the three fields, one after the other, somewhere in the line
CarriesFields(l) ==
    \E i \in 1..(Len(l) - 2) :
        /\ l[i].t = "completion_tokens"
        /\ l[i + 1].t = "prompt_tokens"
        /\ l[i + 2].t = "total_tokens"

\* the first place where they stand
FieldsAt(l) ==
    CHOOSE i \in 1..(Len(l) - 2) :
        /\ l[i].t = "completion_tokens"
        /\ l[i + 1].t = "prompt_tokens"
        /\ l[i + 2].t = "total_tokens"
        /\ \A j \in 1..(i - 1) :
              ~(/\ l[j].t = "completion_tokens"
                /\ l[j + 1].t = "prompt_tokens"
                /\ l[j + 2].t = "total_tokens")

\* what a line adds to the sum of field `off` (1: prompt_tokens, 2:
\* total_tokens) according to the claim
Adds(l, off) ==
    IF HasPrefix(l) /\ CarriesFields(l) THEN l[FieldsAt(l) + off].v ELSE 0

RECURSIVE SumLines(_, _)
SumLines(ls, off) ==
    IF ls = <<>> THEN 0 ELSE Adds(Head(ls), off) + SumLines(Tail(ls), off)

RECURSIVE SumFiles(_, _)
SumFiles(d, off) ==
    IF d = <<>> THEN 0
    ELSE (IF EndsWith(Head(d).name, InjectSuffix)
          THEN SumLines(Head(d).lines, off) ELSE 0) + SumFiles(Tail(d), off)

\* C6: the scan is not ended by a malformed line.  A line that starts with
\* the prefix and lacks one of the three fields is passed over, so counter
\* never stops with an exception, and at its end prompt and total are the
\* sums of prompt_tokens and total_tokens over the lines that start with the
\* prefix and carry the three fields, in all the '_inject.log' files.
C6_MalformedLineSkipped ==
    /\ c_pc # "raised"
    /\ c_pc = "done" =>
        /\ counter_prompt = SumFiles(logs, 1)
        /\ counter_total = SumFiles(logs, 2)

(***************************************************************************)
(* The claim about calculate (SpecCalc).                                   *)
(***************************************************************************)
\* The sum the claim describes: a block opens at a line that starts with the
\* '=' delimiter, closes at the next line that starts with the '-'
\* delimiter, and adds the token count of the preamble followed by the lines
\* between the two.
RECURSIVE BlockSum(_, _, _, _)
BlockSum(ls, i, inside, between) ==
    IF i > Len(ls) THEN 0
    ELSE IF inside
         THEN IF StartsWith(ls[i], DashDelimiter)
              THEN tokenCount(init_content \o Join(between))
                   + BlockSum(ls, i + 1, FALSE, <<>>)
              ELSE BlockSum(ls, i + 1, TRUE, Append(between, ls[i]))
         ELSE IF StartsWith(ls[i], EqDelimiter)
              THEN BlockSum(ls, i + 1, TRUE, <<>>)
              ELSE BlockSum(ls, i + 1, FALSE, <<>>)

\* C7: transcript accounting.  When calculate is done, prompt is the sum,
\* over the closed blocks of run.log, of the token count of the preamble
\* followed by the lines inside the block.
C7_BlockContribution ==
    calc_pc = "done" => calc_prompt = BlockSum(run_log.ls, 1, FALSE, <<>>)

(***************************************************************************)
(* The claim about the pipeline (SpecPipe).                                *)
(***************************************************************************)
\* C10 as stated: a command that ended with a non-zero status is the last
\* one run, and the pipeline has stopped with a failure.
C10_FailureFatal_Original ==
    \A i \in DOMAIN cmdlog :
        cmdlog[i].rc # 0 => (i = Len(cmdlog) /\ pipe_pc = "raised")

\* the commands whose exit status the code looks at (lines 11 and 61)
CheckedCommands == {"cargo_test_list", "llvm_cov_export"}

\* C10, amended: when the listing command of read_targets or the export
\* command of collect_result ends with a non-zero status, it is the last
\* command run and the pipeline has stopped with a failure; and no command
\* is run twice.  (The exit statuses of the rm commands, of `binary --list`
\* and of the test runs are not looked at; after a failed `rm -rf cov` the
\* pipeline stops only if os.mkdir finds the directory still there.)
C10_FailureFatal ==
    /\ \A i \in DOMAIN cmdlog :
        (cmdlog[i].rc # 0 /\ cmdlog[i].cmd \in CheckedCommands) =>
            (i = Len(cmdlog) /\ pipe_pc = "raised")
    /\ \A i, j \in DOMAIN cmdlog :
        (cmdlog[i].cmd = cmdlog[j].cmd /\ cmdlog[i].arg = cmdlog[j].arg) => i = j

\* C10, its case: a test run timed out, the pipeline went on, and the export
\* command then failed and stopped it.
C10_Witness ==
    /\ pipe_pc = "raised"
    /\ cmdlog[Len(cmdlog)].cmd = "llvm_cov_export"
    /\ cmdlog[Len(cmdlog)].rc # 0
    /\ \E i \in DOMAIN cmdlog : cmdlog[i].cmd = "test" /\ cmdlog[i].rc # 0

====
